---- MODULE Spec2Model ----
(***************************************************************************)
(* Model of combine_pdf.py: identifier extraction from file name stems,    *)
(* validation of docx/pdf pairs, the merge of converted documents with     *)
(* their reference PDFs, and the script entry point that runs the merge    *)
(* and then reprint_to_a4 on the merged file.                              *)
(*                                                                         *)
(* Text is a sequence of one-character strings.  A regular expression is   *)
(* a record: ok says whether the pattern compiles, atoms is a sequence of  *)
(* quantified character classes.  An atom [cls, min, grp] consumes,        *)
(* greedily, the longest run of characters of cls; min is 0 for X* and 1   *)
(* for X+; grp is "none" for an uncaptured atom, "cap" for a captured one, *)
(* and "optcap" for an optional captured one, a group that takes no part   *)
(* in the match when no character of cls is there.  Adjacent atoms of      *)
(* every pattern below have disjoint classes, so greedy matching needs no  *)
(* backtracking.                                                           *)
(***************************************************************************)
EXTENDS Integers, Sequences, FiniteSets, TLC

VARIABLES
    x_stem,       \* extract_base_id: argument filename_stem
    x_patterns,   \* extract_base_id: argument regex_patterns
    x_result,     \* extract_base_id: outcome of the call
    x_called,     \* extract_base_id: whether the call was made
    files,        \* the .docx and .pdf files under the configured directories
    regex_patterns, \* cfg_dict["regex_pattern"]
    pc,           \* position of the script: start, loop, finally, reprint, done, crashed
    pdf_index,    \* validate_docx_pdf_pairs: base_id -> pdf, as returned
    vlog,         \* validate_docx_pdf_pairs: what it logged for each docx
    queue,        \* merge_docx_pdf: the docx files still to be visited
    merger,       \* merge_docx_pdf: pages held by the PdfMerger
    temp_files,   \* merge_docx_pdf: the list temp_files
    tmp_on_disk,  \* the temporary files that exist on disk
    appended_count, \* merge_docx_pdf: appended_count
    mlog,         \* merge_docx_pdf: what it logged for each docx visited
    conv_failed,  \* the docx files whose conversion raised
    error,        \* the exception being propagated, or "none"
    output,       \* final_merged.pdf: whether it exists, and its pages
    a4_written,   \* whether final_merged_A4.pdf was written
    r_input,      \* reprint_to_a4: what lies at input_pdf (missing, empty, invalid, valid)
    r_pages,      \* reprint_to_a4: the (width, height) of the pages of the input
    r_margin,     \* reprint_to_a4: margin_mm, in tenths of a millimetre
    r_shrink,     \* reprint_to_a4: shrink_only
    r_rotate,     \* reprint_to_a4: rotate_landscape_to_portrait
    r_legacy,     \* reprint_to_a4: auto_rotate_landscape ("None", "True", "False")
    r_pc,         \* reprint_to_a4: position (call, pages, done, failed)
    r_canvas,     \* reprint_to_a4: the pages shown on the canvas so far
    r_out,        \* the file at output_pdf: whether it exists, and its pages
    r_error,      \* reprint_to_a4: the exception raised, with the page it names
    f_dirs,       \* find_matching_directories: the directories of the file system
    f_order,      \* find_matching_directories: the order in which a directory lists names
    f_roots,      \* find_matching_directories: root_paths
    f_keywords,   \* find_matching_directories: keywords
    f_mode,       \* find_matching_directories: match_mode
    f_result,     \* find_matching_directories: the directories returned
    f_called,     \* find_matching_directories: whether the call was made
    c_files,      \* find_and_copy_docx: docx_dirs, each with its file names in os.walk order
    c_keywords,   \* find_and_copy_docx: keywords
    c_mode,       \* find_and_copy_docx: match_mode
    c_unmatched,  \* find_and_copy_docx: unmatched_keywords at the end
    c_copied,     \* find_and_copy_docx: the files copied
    c_called      \* find_and_copy_docx: whether the call was made

xvars == <<x_stem, x_patterns, x_result, x_called>>
mvars == <<files, regex_patterns, pc, pdf_index, vlog, queue, merger, temp_files,
           tmp_on_disk, appended_count, mlog, conv_failed, error, output,
           a4_written>>
rvars == <<r_input, r_pages, r_margin, r_shrink, r_rotate, r_legacy, r_pc, r_canvas,
           r_out, r_error>>
fvars == <<f_dirs, f_order, f_roots, f_keywords, f_mode, f_result, f_called>>
cvars == <<c_files, c_keywords, c_mode, c_unmatched, c_copied, c_called>>
ovars == <<rvars, fvars, cvars>>
vars == <<xvars, mvars, ovars>>

\* The state of the variables of an operation that is not under way.
RIdle ==
    /\ r_input = "missing"
    /\ r_pages = <<>>
    /\ r_margin = 0
    /\ r_shrink = TRUE
    /\ r_rotate = TRUE
    /\ r_legacy = "None"
    /\ r_pc = "idle"
    /\ r_canvas = <<>>
    /\ r_out = [state |-> "absent", pages |-> <<>>]
    /\ r_error = [exc |-> "none", page |-> 0]

FIdle ==
    /\ f_dirs = {}
    /\ f_order = <<>>
    /\ f_roots = <<>>
    /\ f_keywords = <<>>
    /\ f_mode = "startswith"
    /\ f_result = {}
    /\ f_called = TRUE

CIdle ==
    /\ c_files = <<>>
    /\ c_keywords = <<>>
    /\ c_mode = "startswith"
    /\ c_unmatched = {}
    /\ c_copied = <<>>
    /\ c_called = TRUE

(***************************************************************************)
(* Bounds                                                                  *)
(***************************************************************************)
MaxStemLen == 3
MaxPatterns == 2
MaxFiles == 4
MaxPages == 2

Digits == {"7", "8"}
Upper == {"A", "B"}
StemAlphabet == {"7", "A", "-"}

(***************************************************************************)
(* Patterns (the regex_pattern entries of the configuration)               *)
(***************************************************************************)
\* (\d+)
PatDigits == [ok |-> TRUE, atoms |-> <<[cls |-> Digits, min |-> 1, grp |-> "cap"]>>]
\* \d+
PatNoGroup == [ok |-> TRUE, atoms |-> <<[cls |-> Digits, min |-> 1, grp |-> "none"]>>]
\* ([A-Z]*)(\d+)
PatAlphaDigits ==
    [ok |-> TRUE,
     atoms |-> <<[cls |-> Upper, min |-> 0, grp |-> "cap"],
                 [cls |-> Digits, min |-> 1, grp |-> "cap"]>>]
\* (\d+)([A-Z]+)?
PatDigitsOptAlpha ==
    [ok |-> TRUE,
     atoms |-> <<[cls |-> Digits, min |-> 1, grp |-> "cap"],
                 [cls |-> Upper, min |-> 1, grp |-> "optcap"]>>]
\* ([A-Z]+)
PatAlpha == [ok |-> TRUE, atoms |-> <<[cls |-> Upper, min |-> 1, grp |-> "cap"]>>]
\* (\d+   -- unbalanced parenthesis, re.error when compiled
PatBad == [ok |-> FALSE, atoms |-> <<[cls |-> Digits, min |-> 1, grp |-> "cap"]>>]

AllPatterns ==
    {PatDigits, PatNoGroup, PatAlphaDigits, PatDigitsOptAlpha, PatAlpha, PatBad}

SeqsUpTo(S, n) == UNION {[1..k -> S] : k \in 0..n}

(***************************************************************************)
(* re.match                                                                *)
(***************************************************************************)
\* Length of the longest run of characters of cls in s from position pos.
RECURSIVE RunLen(_, _, _)
RunLen(s, pos, cls) ==
    IF pos <= Len(s) /\ s[pos] \in cls
    THEN 1 + RunLen(s, pos + 1, cls)
    ELSE 0

NoMatch == [matched |-> FALSE, groups |-> <<>>, text |-> <<>>]

\* Match atoms i.. of the pattern against s from position pos; start is where
\* the match began and groups the capture groups collected so far.
RECURSIVE MatchAtoms(_, _, _, _, _, _)
MatchAtoms(atoms, s, start, pos, i, groups) ==
    IF i > Len(atoms)
    THEN [matched |-> TRUE, groups |-> groups, text |-> SubSeq(s, start, pos - 1)]
    ELSE LET a == atoms[i]
             n == RunLen(s, pos, a.cls)
             txt == SubSeq(s, pos, pos + n - 1)
         IN  IF n >= a.min
             THEN MatchAtoms(atoms, s, start, pos + n, i + 1,
                     IF a.grp = "none" THEN groups
                     ELSE Append(groups, [part |-> TRUE, text |-> txt]))
             ELSE IF a.grp = "optcap"
             THEN MatchAtoms(atoms, s, start, pos, i + 1,
                     Append(groups, [part |-> FALSE, text |-> <<>>]))
             ELSE NoMatch

\* re.match: the pattern matched at the start of the string only.
ReMatch(p, s) == MatchAtoms(p.atoms, s, 1, 1, 1, <<>>)

(***************************************************************************)
(* extract_base_id                                                         *)
(***************************************************************************)
ResNone == [kind |-> "None", val |-> <<>>, logged |-> 0]

\* "-".join(parts) for a sequence of texts.
RECURSIVE Join(_)
Join(parts) ==
    IF Len(parts) = 0 THEN <<>>
    ELSE IF Len(parts) = 1 THEN parts[1]
    ELSE parts[1] \o <<"-">> \o Join(Tail(parts))

\* "-".join(m.groups()) if m.groups() else m.group(0)
\* A group that took no part in the match is None in m.groups(), and
\* str.join raises TypeError on it; the function catches re.error only.
IdOfMatch(m, logged) ==
    IF Len(m.groups) > 0
    THEN IF \E k \in 1..Len(m.groups) : ~m.groups[k].part
         THEN [kind |-> "TypeError", val |-> <<>>, logged |-> logged]
         ELSE [kind |-> "str",
               val |-> Join([k \in 1..Len(m.groups) |-> m.groups[k].text]),
               logged |-> logged]
    ELSE [kind |-> "str", val |-> m.text, logged |-> logged]

\* The for loop over regex_patterns, from pattern i on; logged counts the
\* logger.error calls made for re.error.
RECURSIVE ExtractLoop(_, _, _, _)
ExtractLoop(stem, patterns, i, logged) ==
    IF i > Len(patterns)
    THEN [ResNone EXCEPT !.logged = logged]
    ELSE IF ~patterns[i].ok
    THEN ExtractLoop(stem, patterns, i + 1, logged + 1)
    ELSE LET m == ReMatch(patterns[i], stem)
         IN  IF m.matched
             THEN IdOfMatch(m, logged)
             ELSE ExtractLoop(stem, patterns, i + 1, logged)

extract_base_id(stem, patterns) == ExtractLoop(stem, patterns, 1, 0)

(***************************************************************************)
(* The files and the configuration                                         *)
(***************************************************************************)
\* The candidate files, in the order a directory scan yields them; pages is
\* the page count of a pdf, or of a docx once converted.
FileSeq ==
    << [name |-> "d1/7A.docx", dir |-> "d1", ext |-> "docx", stem |-> <<"7", "A">>, pages |-> 2],
       [name |-> "d1/x.docx",  dir |-> "d1", ext |-> "docx", stem |-> <<"x">>,      pages |-> 1],
       [name |-> "d1/7A.pdf",  dir |-> "d1", ext |-> "pdf",  stem |-> <<"7", "A">>, pages |-> 2],
       [name |-> "d1/7B.pdf",  dir |-> "d1", ext |-> "pdf",  stem |-> <<"7", "B">>, pages |-> 1],
       [name |-> "d2/7A.docx", dir |-> "d2", ext |-> "docx", stem |-> <<"7", "A">>, pages |-> 1],
       [name |-> "d2/8.docx",  dir |-> "d2", ext |-> "docx", stem |-> <<"8">>,      pages |-> 2],
       [name |-> "d2/7A.pdf",  dir |-> "d2", ext |-> "pdf",  stem |-> <<"7", "A">>, pages |-> 1],
       [name |-> "d2/7B.pdf",  dir |-> "d2", ext |-> "pdf",  stem |-> <<"7", "B">>, pages |-> 2],
       [name |-> "d2/8.pdf",   dir |-> "d2", ext |-> "pdf",  stem |-> <<"8">>,      pages |-> 1] >>

FileUniverse == {FileSeq[i] : i \in DOMAIN FileSeq}

Layouts == {fs \in SUBSET FileUniverse : Cardinality(fs) <= MaxFiles}

\* cfg_dict["desktop_output"]
desktop_output == <<"d1", "d2">>

\* The values of cfg_dict["regex_pattern"] the runs are made with.
ConfigPatterns == {<<>>, <<PatDigits>>, <<PatBad, PatAlphaDigits>>}

\* list(directory.rglob("*.ext"))
rglob(fs, directory, ext) ==
    SelectSeq(FileSeq, LAMBDA f : f \in fs /\ f.dir = directory /\ f.ext = ext)

\* "if base_id": a string that is not empty.
Truthy(r) == r.kind = "str" /\ r.val # <<>>

EmptyMap == [k \in {} |-> 0]
Put(f, k, v) == [x \in DOMAIN f \cup {k} |-> IF x = k THEN v ELSE f[x]]
Range(q) == {q[i] : i \in DOMAIN q}

RECURSIVE Concat(_)
Concat(qs) == IF qs = <<>> THEN <<>> ELSE Head(qs) \o Concat(Tail(qs))

(***************************************************************************)
(* validate_docx_pdf_pairs                                                 *)
(***************************************************************************)
\* pdf_map.get(base_id, []): the pdfs of the directory whose stem yields base_id.
pdf_map_get(fs, directory, patterns, base_id) ==
    SelectSeq(rglob(fs, directory, "pdf"),
              LAMBDA f : LET r == extract_base_id(f.stem, patterns)
                         IN  Truthy(r) /\ r.val = base_id)

\* The loop over docx_files of one directory; acc holds pdf_index and the log.
RECURSIVE ValidateDocs(_, _, _, _, _)
ValidateDocs(docxs, fs, directory, patterns, acc) ==
    IF docxs = <<>> THEN acc
    ELSE LET docx == Head(docxs)
             r == extract_base_id(docx.stem, patterns)
             matched == pdf_map_get(fs, directory, patterns, r.val)
             next ==
                 IF ~Truthy(r)
                 THEN [acc EXCEPT !.log = Put(@, docx.name, [status |-> "noid", pdf |-> ""])]
                 ELSE IF Len(matched) = 0
                 THEN [acc EXCEPT !.log = Put(@, docx.name, [status |-> "missing", pdf |-> ""])]
                 ELSE IF Len(matched) > 1
                 THEN [acc EXCEPT !.log = Put(@, docx.name, [status |-> "multiple", pdf |-> ""])]
                 ELSE [idx |-> Put(acc.idx, r.val, matched[1]),
                       log |-> Put(acc.log, docx.name,
                                   [status |-> "matched", pdf |-> matched[1].name])]
         IN  ValidateDocs(Tail(docxs), fs, directory, patterns, next)

\* The loop over output_dirs.
RECURSIVE ValidateDirs(_, _, _, _)
ValidateDirs(dirs, fs, patterns, acc) ==
    IF dirs = <<>> THEN acc
    ELSE ValidateDirs(Tail(dirs), fs, patterns,
            ValidateDocs(rglob(fs, Head(dirs), "docx"), fs, Head(dirs), patterns, acc))

validate_docx_pdf_pairs(fs, patterns) ==
    IF patterns = <<>>
    THEN [idx |-> EmptyMap, log |-> EmptyMap]
    ELSE ValidateDirs(desktop_output, fs, patterns, [idx |-> EmptyMap, log |-> EmptyMap])

\* Whether extract_base_id raises on a file the scans visit.
ExtractRaises(fs, patterns) ==
    \E f \in fs : extract_base_id(f.stem, patterns).kind = "TypeError"

(***************************************************************************)
(* merge_docx_pdf                                                          *)
(***************************************************************************)
\* What convert_docx_to_pdf does: it returns, or raises RuntimeError (not on
\* Windows, no pywin32, Word does not start) or re-raises the COM error.
ConvOutcomes == {"ok", "RuntimeError", "com_error"}

\* What PdfMerger.append does: it appends every page of the file, or raises
\* before it appended any.
AppendOutcomes == {"ok", "IOError", "PdfReadError"}

\* except (IOError, ValueError)
Caught(exc) == exc \in {"IOError", "ValueError"}

\* tempfile.NamedTemporaryFile(suffix=".pdf", delete=False) for this docx
Tmp(docx) == <<"tmp", docx.name>>

DocPages(docx) ==
    [k \in 1..docx.pages |->
        [pair |-> docx.name, src |-> "doc", file |-> Tmp(docx), n |-> k]]

RefPages(docx, pdf) ==
    [k \in 1..pdf.pages |->
        [pair |-> docx.name, src |-> "ref", file |-> <<"pdf", pdf.name>>, n |-> k]]

Step(ev, pdf, tmp, listed, pages, counted, exc, convfail) ==
    [ev |-> ev, pdf |-> pdf, tmp |-> tmp, listed |-> listed, pages |-> pages,
     counted |-> counted, exc |-> exc, convfail |-> convfail]

\* The body of the inner try with the reference pdf appended first.
TryBodyRefFirst(docx, pdf_file, conv, a1, a2) ==
    IF conv # "ok"
    THEN Step("failed", pdf_file.name, TRUE, FALSE, <<>>, 0, conv, TRUE)
    ELSE IF a1 # "ok"
    THEN Step("failed", pdf_file.name, TRUE, TRUE, <<>>, 0, a1, FALSE)
    ELSE IF a2 # "ok"
    THEN Step("failed", pdf_file.name, TRUE, TRUE, RefPages(docx, pdf_file), 0, a2, FALSE)
    ELSE Step("merged", pdf_file.name, TRUE, TRUE,
              RefPages(docx, pdf_file) \o DocPages(docx), 2, "none", FALSE)

\* The body of the inner try: the temporary file, the conversion, the two
\* appends and the count.
TryBody(docx, pdf_file, conv, a1, a2) ==
    IF conv # "ok"
    THEN Step("failed", pdf_file.name, TRUE, FALSE, <<>>, 0, conv, TRUE)
    ELSE IF a1 # "ok"
    THEN Step("failed", pdf_file.name, TRUE, TRUE, <<>>, 0, a1, FALSE)
    ELSE IF a2 # "ok"
    THEN Step("failed", pdf_file.name, TRUE, TRUE, DocPages(docx), 0, a2, FALSE)
    ELSE Step("merged", pdf_file.name, TRUE, TRUE,
              DocPages(docx) \o RefPages(docx, pdf_file), 2, "none", FALSE)

\* One pass of the loop over docx_files, for docx.
Visit(docx, index, patterns, conv, a1, a2) ==
    LET r == extract_base_id(docx.stem, patterns)
    IN  IF r.kind = "TypeError"
        THEN Step("raised", "", FALSE, FALSE, <<>>, 0, "TypeError", FALSE)
        ELSE IF ~Truthy(r)
        THEN Step("skip_noid", "", FALSE, FALSE, <<>>, 0, "none", FALSE)
        ELSE IF r.val \notin DOMAIN index
        THEN Step("skip_nopdf", "", FALSE, FALSE, <<>>, 0, "none", FALSE)
        ELSE TryBody(docx, index[r.val], conv, a1, a2)

NoFile == [exists |-> FALSE, pages |-> <<>>]

(***************************************************************************)
(* The script: merge_docx_pdf, then reprint_to_a4 on the merged file       *)
(***************************************************************************)
XIdle ==
    /\ x_stem = <<>>
    /\ x_patterns = <<>>
    /\ x_result = ResNone
    /\ x_called = TRUE

Init ==
    /\ XIdle
    /\ RIdle /\ FIdle /\ CIdle
    /\ files \in Layouts
    /\ regex_patterns \in ConfigPatterns
    /\ pc = "start"
    /\ pdf_index = EmptyMap
    /\ vlog = EmptyMap
    /\ queue = <<>>
    /\ merger = <<>>
    /\ temp_files = <<>>
    /\ tmp_on_disk = {}
    /\ appended_count = 0
    /\ mlog = <<>>
    /\ conv_failed = {}
    /\ error = "none"
    /\ output = NoFile
    /\ a4_written = FALSE

\* merge_docx_pdf up to the try: the call of validate_docx_pdf_pairs.
Validate ==
    /\ pc = "start"
    /\ IF ExtractRaises(files, regex_patterns)
       THEN /\ pc' = "crashed"
            /\ error' = "TypeError"
            /\ UNCHANGED <<pdf_index, vlog, queue>>
       ELSE LET v == validate_docx_pdf_pairs(files, regex_patterns)
            IN  /\ pdf_index' = v.idx
                /\ vlog' = v.log
                /\ queue' = Concat([i \in DOMAIN desktop_output |->
                                      rglob(files, desktop_output[i], "docx")])
                /\ pc' = "loop"
                /\ UNCHANGED error
    /\ UNCHANGED <<ovars, xvars, files, regex_patterns, merger, temp_files, tmp_on_disk,
                   appended_count, mlog, conv_failed, output, a4_written>>

\* One pass of the loop over the docx files.
MergeStep ==
    /\ pc = "loop"
    /\ queue # <<>>
    /\ \E conv \in ConvOutcomes, a1 \in AppendOutcomes, a2 \in AppendOutcomes :
        LET docx == Head(queue)
            st == Visit(docx, pdf_index, regex_patterns, conv, a1, a2)
        IN  /\ tmp_on_disk' = IF st.tmp THEN tmp_on_disk \cup {Tmp(docx)} ELSE tmp_on_disk
            /\ temp_files' = IF st.listed THEN Append(temp_files, Tmp(docx)) ELSE temp_files
            /\ merger' = merger \o st.pages
            /\ appended_count' = appended_count + st.counted
            /\ conv_failed' = IF st.convfail THEN conv_failed \cup {docx.name} ELSE conv_failed
            /\ queue' = Tail(queue)
            /\ IF st.exc = "none" \/ (st.ev = "failed" /\ Caught(st.exc))
               THEN /\ mlog' = Append(mlog, [ev |-> st.ev, docx |-> docx.name, pdf |-> st.pdf])
                    /\ UNCHANGED <<pc, error>>
               ELSE /\ pc' = "finally"
                    /\ error' = st.exc
                    /\ UNCHANGED mlog
    /\ UNCHANGED <<ovars, xvars, files, regex_patterns, pdf_index, vlog, output, a4_written>>

\* After the loop: write the merged file, or warn that nothing was merged.
WriteOrWarn ==
    /\ pc = "loop"
    /\ queue = <<>>
    /\ output' = IF appended_count > 0 THEN [exists |-> TRUE, pages |-> merger] ELSE output
    /\ pc' = "finally"
    /\ UNCHANGED <<ovars, xvars, files, regex_patterns, pdf_index, vlog, queue, merger,
                   temp_files, tmp_on_disk, appended_count, mlog, conv_failed, error,
                   a4_written>>

\* The finally clause: the files of temp_files are unlinked; an exception on
\* its way goes on to the script, which handles none.
Finally ==
    /\ pc = "finally"
    /\ tmp_on_disk' = tmp_on_disk \ Range(temp_files)
    /\ pc' = IF error = "none" THEN "reprint" ELSE "crashed"
    /\ UNCHANGED <<ovars, xvars, files, regex_patterns, pdf_index, vlog, queue, merger,
                   temp_files, appended_count, mlog, conv_failed, error, output,
                   a4_written>>

\* The script's call of reprint_to_a4 on the merged file.
Reprint ==
    /\ pc = "reprint"
    /\ IF ~output.exists
       THEN /\ pc' = "crashed"
            /\ error' = "FileNotFoundError"
            /\ UNCHANGED a4_written
       ELSE /\ pc' = "done"
            /\ a4_written' = TRUE
            /\ UNCHANGED error
    /\ UNCHANGED <<ovars, xvars, files, regex_patterns, pdf_index, vlog, queue, merger,
                   temp_files, tmp_on_disk, appended_count, mlog, conv_failed, output>>

Next == Validate \/ MergeStep \/ WriteOrWarn \/ Finally \/ Reprint

Spec == Init /\ [][Next]_vars

(***************************************************************************)
(* Specification of a call of extract_base_id                              *)
(***************************************************************************)
MIdle ==
    /\ files = {}
    /\ regex_patterns = <<>>
    /\ pc = "idle"
    /\ pdf_index = EmptyMap
    /\ vlog = EmptyMap
    /\ queue = <<>>
    /\ merger = <<>>
    /\ temp_files = <<>>
    /\ tmp_on_disk = {}
    /\ appended_count = 0
    /\ mlog = <<>>
    /\ conv_failed = {}
    /\ error = "none"
    /\ output = NoFile
    /\ a4_written = FALSE

XInit ==
    /\ x_stem \in SeqsUpTo(StemAlphabet, MaxStemLen)
    /\ x_patterns \in SeqsUpTo(AllPatterns, MaxPatterns)
    /\ x_result = ResNone
    /\ x_called = FALSE
    /\ MIdle
    /\ RIdle /\ FIdle /\ CIdle

CallExtract ==
    /\ ~x_called
    /\ x_result' = extract_base_id(x_stem, x_patterns)
    /\ x_called' = TRUE
    /\ UNCHANGED <<x_stem, x_patterns, mvars, ovars>>

SpecExtract == XInit /\ [][CallExtract]_vars

(***************************************************************************)
(* Properties of the merge                                                 *)
(***************************************************************************)
FileNamed(name) == CHOOSE f \in FileUniverse : f.name = name

Contiguous(q, sub) ==
    \E i \in 0..(Len(q) - Len(sub)) : SubSeq(q, i + 1, i + Len(sub)) = sub

Merged == {k \in DOMAIN mlog : mlog[k].ev = "merged"}

\* merge_docx_pdf has ended, by returning or by raising.
MergeEnded == pc \in {"reprint", "done", "crashed"}

\* The script has ended.
InvocationEnded == pc \in {"done", "crashed"}

PairSegment(k) ==
    DocPages(FileNamed(mlog[k].docx))
        \o RefPages(FileNamed(mlog[k].docx), FileNamed(mlog[k].pdf))

\* C1: for every merged pair, the pages of the converted document come, in
\* order, immediately before the pages of its reference pdf, in order, with no
\* other page between them, in the merger and in the written file, whatever
\* happened to the pairs visited before.
C1_DocPagesThenRefPages ==
    \A k \in Merged :
        /\ Contiguous(merger, PairSegment(k))
        /\ output.exists => Contiguous(output.pages, PairSegment(k))

\* C1 witness: a pair was merged after an earlier pair failed and after a docx
\* was skipped, and the merged file was written.
C1_Witness ==
    /\ output.exists
    /\ \E j, k, l \in DOMAIN mlog :
        /\ j < l /\ k < l
        /\ mlog[j].ev = "failed"
        /\ mlog[k].ev \in {"skip_noid", "skip_nopdf"}
        /\ mlog[l].ev = "merged"

\* C2 (as stated): every pair contributes to the written file the full page
\* sets of both its converted document and its reference pdf, or no page.
C2_AllOrNothing ==
    output.exists =>
        \A d \in {f \in files : f.ext = "docx"} :
            LET mine == SelectSeq(output.pages, LAMBDA pg : pg.pair = d.name)
            IN  \/ mine = <<>>
                \/ \E r \in {f \in files : f.ext = "pdf"} :
                       mine = DocPages(d) \o RefPages(d, r)

\* C3 (as stated): a conversion that raises does not abort the merge: the
\* failure is recorded, every later docx is still visited, and the pairs that
\* succeeded are written.
C3_ConversionFailureContained ==
    MergeEnded /\ conv_failed # {} =>
        /\ queue = <<>>
        /\ \A d \in conv_failed :
               \E k \in DOMAIN mlog : mlog[k].ev = "failed" /\ mlog[k].docx = d
        /\ Merged # {} => output.exists

\* C4 (as stated): when merge_docx_pdf has ended, every temporary file it
\* created is deleted.
C4_TempFilesDeleted == MergeEnded => tmp_on_disk = {}

\* merge_docx_pdf returned: no exception left it (FileNotFoundError is raised
\* by reprint_to_a4 only).
MergeReturned ==
    \/ pc \in {"reprint", "done"}
    \/ pc = "crashed" /\ error = "FileNotFoundError"

\* C5 (as stated, for the runs in which merge_docx_pdf returns): with no pair
\* merged no file is written and the script ends without an unhandled error;
\* with a pair merged the file is written.
C5_NothingMergedIsReported ==
    InvocationEnded /\ MergeReturned =>
        /\ Merged = {} => ~output.exists /\ pc # "crashed"
        /\ Merged # {} => output.exists

\* C6 (as stated): only a docx that validation reported as matched has pages
\* in the merger.
C6_OnlyMatchedContribute ==
    \A i \in DOMAIN merger :
        /\ merger[i].pair \in DOMAIN vlog
        /\ vlog[merger[i].pair].status = "matched"

\* The scanned reference pdfs that carry the identifier id.
Carriers(id) ==
    {f \in files : /\ f.ext = "pdf"
                   /\ Truthy(extract_base_id(f.stem, regex_patterns))
                   /\ extract_base_id(f.stem, regex_patterns).val = id}

\* C7 (as stated): the returned index holds no entry for an identifier that
\* two or more scanned reference pdfs carry.
C7_NoEntryForAmbiguousId ==
    \A id \in DOMAIN pdf_index : Cardinality(Carriers(id)) <= 1

\* C8 (as stated): a docx reported as matched to a pdf is merged with that pdf.
C8_MergedWithValidatedPdf ==
    \A k \in Merged :
        mlog[k].docx \in DOMAIN vlog /\ vlog[mlog[k].docx].status = "matched" =>
            vlog[mlog[k].docx].pdf = mlog[k].pdf

(***************************************************************************)
(* What a match is, stated without the matching algorithm: a pattern       *)
(* matches at the start of s when a prefix of s splits into one segment    *)
(* per atom, each segment a maximal run of the atom's class and long       *)
(* enough for the atom (an optional group may stay away instead).          *)
(***************************************************************************)
RECURSIVE SumTo(_, _)
SumTo(lens, k) == IF k = 0 THEN 0 ELSE lens[k] + SumTo(lens, k - 1)

SegText(s, lens, k) == SubSeq(s, SumTo(lens, k - 1) + 1, SumTo(lens, k))

Segmentations(p, s) ==
    {lens \in [1..Len(p.atoms) -> 0..Len(s)] :
        /\ SumTo(lens, Len(p.atoms)) <= Len(s)
        /\ \A k \in 1..Len(p.atoms) :
            /\ \A j \in 1..lens[k] : SegText(s, lens, k)[j] \in p.atoms[k].cls
            /\ SumTo(lens, k) < Len(s) => s[SumTo(lens, k) + 1] \notin p.atoms[k].cls
            /\ \/ lens[k] >= p.atoms[k].min
               \/ p.atoms[k].grp = "optcap" /\ lens[k] = 0}

MatchesAtStart(p, s) == p.ok /\ Segmentations(p, s) # {}

\* The indices of the patterns that compile and match at the start of stem.
Usable(stem, patterns) ==
    {i \in 1..Len(patterns) : MatchesAtStart(patterns[i], stem)}

FirstUsable(stem, patterns) ==
    CHOOSE i \in Usable(stem, patterns) : \A j \in Usable(stem, patterns) : i <= j

HasGroups(p) == \E k \in 1..Len(p.atoms) : p.atoms[k].grp # "none"

Took(p, lens, k) == lens[k] >= p.atoms[k].min

AllGroupsTook(p, lens) ==
    \A k \in 1..Len(p.atoms) : p.atoms[k].grp # "none" => Took(p, lens, k)

\* The texts of the capture groups from atom k on; with nonEmptyOnly, of the
\* groups that took part in the match with a non-empty text only.
RECURSIVE GroupTexts(_, _, _, _, _)
GroupTexts(p, s, lens, k, nonEmptyOnly) ==
    IF k > Len(p.atoms) THEN <<>>
    ELSE IF p.atoms[k].grp = "none" \/ (nonEmptyOnly /\ lens[k] = 0)
    THEN GroupTexts(p, s, lens, k + 1, nonEmptyOnly)
    ELSE <<SegText(s, lens, k)>> \o GroupTexts(p, s, lens, k + 1, nonEmptyOnly)

MalformedBefore(patterns, n) == Cardinality({j \in 1..n : ~patterns[j].ok})

\* C9 (as stated): the call returns the identifier of the first pattern, in
\* list order, that compiles and matches at the start of the stem: its capture
\* groups joined with "-", or the full matched text when it has no groups;
\* malformed patterns are logged and skipped; the result is None when no
\* pattern matches.
C9_FirstMatchIdentifier ==
    x_called =>
        IF Usable(x_stem, x_patterns) = {}
        THEN /\ x_result.kind = "None"
             /\ x_result.logged = MalformedBefore(x_patterns, Len(x_patterns))
        ELSE LET i == FirstUsable(x_stem, x_patterns)
                 p == x_patterns[i]
                 lens == CHOOSE l \in Segmentations(p, x_stem) : TRUE
             IN  /\ x_result.kind = "str"
                 /\ x_result.logged = MalformedBefore(x_patterns, i)
                 /\ ~HasGroups(p) =>
                        x_result.val = SubSeq(x_stem, 1, SumTo(lens, Len(p.atoms)))
                 /\ HasGroups(p) /\ AllGroupsTook(p, lens) =>
                        x_result.val = Join(GroupTexts(p, x_stem, lens, 1, FALSE))

\* C9, the part the code keeps: whenever the call returns, the value is the one
\* C9 describes (None when no pattern is usable).
C9_WhenReturns ==
    x_called /\ x_result.kind # "TypeError" => C9_FirstMatchIdentifier

\* C10 (as stated): the identifier is the "-"-join of only the non-empty
\* capture groups of the first matching pattern, and the call returns a string
\* or None without raising.
C10_NonEmptyGroupsOnly ==
    x_called =>
        /\ x_result.kind \in {"str", "None"}
        /\ Usable(x_stem, x_patterns) # {} =>
            LET p == x_patterns[FirstUsable(x_stem, x_patterns)]
                lens == CHOOSE l \in Segmentations(p, x_stem) : TRUE
            IN  HasGroups(p) =>
                    x_result.val = Join(GroupTexts(p, x_stem, lens, 1, TRUE))

(***************************************************************************)
(* reprint_to_a4                                                           *)
(*                                                                         *)
(* Lengths are whole points; the A4 page of reportlab (595.28 x 841.89 pt) *)
(* is taken as 595 x 842.  margin_mm is given in tenths of a millimetre    *)
(* and the margins used are multiples of 12.7 mm, which mm_to_pt turns     *)
(* into whole points.  A scale is a fraction [n, d] with d > 0, and the    *)
(* placed sizes and offsets are kept as numerators over 2 * d, so the      *)
(* arithmetic is exact (the rounding of floats is not modelled).           *)
(***************************************************************************)
A4W == 595
A4H == 842
MinContent == 1

\* margin_mm values, in tenths of a millimetre: 0, 12.7, 101.6, 114.3, 152.4 mm
Margins == {0, 127, 1016, 1143, 1524}

\* (width, height) of a source page: A4 landscape, A4 portrait, a square, a
\* small landscape page, A2 portrait, a page of no width, a page of negative
\* height.
PageSizes ==
    {<<842, 595>>, <<595, 842>>, <<100, 100>>, <<200, 100>>, <<1190, 1684>>,
     <<0, 100>>, <<100, -10>>}

\* mm * 72.0 / 25.4, for mm in tenths of a millimetre
mm_to_pt(dmm) == (dmm * 72) \div 254

Max2(a, b) == IF a >= b THEN a ELSE b

\* max(1.0, a4_w - 2 * margin_pt), max(1.0, a4_h - 2 * margin_pt)
content_w(margin_pt) == Max2(MinContent, A4W - 2 * margin_pt)
content_h(margin_pt) == Max2(MinContent, A4H - 2 * margin_pt)

\* a / b for b # 0, as a fraction with a positive denominator
Frac(a, b) == IF b > 0 THEN [n |-> a, d |-> b] ELSE [n |-> -a, d |-> -b]

\* min of two fractions
FracMin(p, q) == IF p.n * q.d <= q.n * p.d THEN p ELSE q

One == [n |-> 1, d |-> 1]

\* if auto_rotate_landscape is not None: rotate_landscape_to_portrait = auto_rotate_landscape
RotateFlag(rotate, legacy) == IF legacy # "None" THEN legacy = "True" ELSE rotate

\* A square page counted as landscape.
IsLandscapeOrSquare(src_w, src_h) == src_w >= src_h

\* is_landscape = src_w > src_h
IsLandscape(src_w, src_h) == src_w > src_h

\* The scale with shrink_only ignored.
ScaleIgnoringShrinkOnly(shrink_only, scale_raw) == scale_raw

\* scale = min(1.0, scale_raw) if shrink_only else scale_raw
ScaleOf(shrink_only, scale_raw) ==
    IF shrink_only THEN FracMin(One, scale_raw) ELSE scale_raw

\* The offset without the margin.
OffsetWithoutMargin(margin_pt, content, placed_n, d) == content * d - placed_n

\* margin_pt + (content - placed) / 2.0, as a numerator over 2 * d, for
\* placed = placed_n / d
Offset2(margin_pt, content, placed_n, d) ==
    2 * margin_pt * d + content * d - placed_n

\* c.scale(scale, scale), c.rotate(90), c.translate(tx, ty) applied to a point;
\* points are numerators over 2 * d.
ScalePoint(n, pt) == <<2 * n * pt[1], 2 * n * pt[2]>>
Rotate90(pt) == <<-pt[2], pt[1]>>
TranslatePoint(tx, ty, pt) == <<pt[1] + tx, pt[2] + ty>>

Corners(src_w, src_h) == {<<0, 0>>, <<src_w, 0>>, <<0, src_h>>, <<src_w, src_h>>}

\* Where the point pt of the source page lands on the target page.
Draw(rotate90, n, ox2, oy2, ph2, pt) ==
    IF rotate90
    THEN TranslatePoint(ox2, oy2 + ph2, Rotate90(ScalePoint(n, pt)))
    ELSE TranslatePoint(ox2, oy2, ScalePoint(n, pt))

\* The body of the loop up to the drawing, for a page of src_w x src_h whose
\* effective sizes are not zero.
PlanPage(idx, src_w, src_h, margin_pt, shrink_only, rotate) ==
    LET rotate90 == rotate /\ IsLandscape(src_w, src_h)
        target_w == IF rotate90 THEN src_h ELSE src_w
        target_h == IF rotate90 THEN src_w ELSE src_h
        cw == content_w(margin_pt)
        ch == content_h(margin_pt)
        scale_raw == FracMin(Frac(cw, target_w), Frac(ch, target_h))
        scale == ScaleOf(shrink_only, scale_raw)
        pw2 == 2 * target_w * scale.n
        ph2 == 2 * target_h * scale.n
        ox2 == Offset2(margin_pt, cw, target_w * scale.n, scale.d)
        oy2 == Offset2(margin_pt, ch, target_h * scale.n, scale.d)
    IN  [src |-> idx, w |-> src_w, h |-> src_h, rotate90 |-> rotate90,
         target_w |-> target_w, target_h |-> target_h,
         raw |-> scale_raw, scale |-> scale,
         pw2 |-> pw2, ph2 |-> ph2, ox2 |-> ox2, oy2 |-> oy2,
         origin |-> Draw(rotate90, scale.n, ox2, oy2, ph2, <<0, 0>>),
         drawn |-> {Draw(rotate90, scale.n, ox2, oy2, ph2, pt) :
                        pt \in Corners(src_w, src_h)}]

\* content_w / target_w or content_h / target_h divides by zero.
DividesByZero(src_w, src_h) == src_w = 0 \/ src_h = 0

\* The drawing becomes the first page of the canvas.
ShowPageFirst(canvas, page) == <<page>> \o canvas

\* c.showPage(): the drawing becomes the next page of the canvas.
ShowPage(canvas, page) == Append(canvas, page)

\* A canvas that opens, and so empties, the output file when it is made.
CanvasTruncates(out) == [state |-> "written", pages |-> <<>>]

\* rl_canvas.Canvas(str(output_pdf), pagesize=A4): the file is not touched
\* before c.save().
CanvasCreated(out) == out

RNoError == [exc |-> "none", page |-> 0]

RInit ==
    /\ XIdle /\ MIdle /\ FIdle /\ CIdle
    /\ r_input \in {"missing", "empty", "invalid", "valid"}
    /\ r_pages \in IF r_input = "valid"
                   THEN SeqsUpTo(PageSizes, MaxPages) \ {<<>>}
                   ELSE {<<>>}
    /\ r_margin \in Margins
    /\ r_shrink \in BOOLEAN
    /\ r_rotate \in BOOLEAN
    /\ r_legacy \in {"None", "True", "False"}
    /\ r_pc = "call"
    /\ r_canvas = <<>>
    /\ r_out \in {[state |-> "absent", pages |-> <<>>], [state |-> "stale", pages |-> <<>>]}
    /\ r_error = RNoError

\* reprint_to_a4 up to the loop: the input is checked and read, the canvas made.
ROpen ==
    /\ r_pc = "call"
    /\ IF r_input = "missing"
       THEN /\ r_pc' = "failed"
            /\ r_error' = [exc |-> "FileNotFoundError", page |-> 0]
            /\ UNCHANGED r_out
       ELSE IF r_input \in {"empty", "invalid"}
       THEN /\ r_pc' = "failed"
            /\ r_error' = [exc |-> "PdfParseError", page |-> 0]
            /\ UNCHANGED r_out
       ELSE /\ r_pc' = "pages"
            /\ r_out' = CanvasCreated(r_out)
            /\ UNCHANGED r_error
    /\ UNCHANGED <<xvars, mvars, fvars, cvars, r_input, r_pages, r_margin, r_shrink,
                   r_rotate, r_legacy, r_canvas>>

\* One pass of the loop over the pages.
RPage ==
    /\ r_pc = "pages"
    /\ Len(r_canvas) < Len(r_pages)
    /\ LET idx == Len(r_canvas) + 1
           src_w == r_pages[idx][1]
           src_h == r_pages[idx][2]
       IN  IF DividesByZero(src_w, src_h)
           THEN /\ r_pc' = "failed"
                /\ r_error' = [exc |-> "ZeroDivisionError", page |-> 0]
                /\ UNCHANGED r_canvas
           ELSE /\ r_canvas' = ShowPage(r_canvas,
                                  PlanPage(idx, src_w, src_h, mm_to_pt(r_margin),
                                           r_shrink, RotateFlag(r_rotate, r_legacy)))
                /\ UNCHANGED <<r_pc, r_error>>
    /\ UNCHANGED <<xvars, mvars, fvars, cvars, r_input, r_pages, r_margin, r_shrink,
                   r_rotate, r_legacy, r_out>>

\* c.save(): the pages of the canvas are written to output_pdf.
RSave ==
    /\ r_pc = "pages"
    /\ Len(r_canvas) = Len(r_pages)
    /\ r_out' = [state |-> "written", pages |-> r_canvas]
    /\ r_pc' = "done"
    /\ UNCHANGED <<xvars, mvars, fvars, cvars, r_input, r_pages, r_margin, r_shrink,
                   r_rotate, r_legacy, r_canvas, r_error>>

RNext == ROpen \/ RPage \/ RSave

SpecReprint == RInit /\ [][RNext]_vars

(***************************************************************************)
(* Properties of reprint_to_a4                                             *)
(***************************************************************************)
Shown == {r_canvas[i] : i \in DOMAIN r_canvas}

MarginPt == mm_to_pt(r_margin)
UsableW == content_w(MarginPt)
UsableH == content_h(MarginPt)

\* Rotation is asked for: the legacy flag, when given, decides.
RotationEnabled ==
    \/ r_legacy = "True"
    \/ r_legacy = "None" /\ r_rotate

\* C11: a page is rotated exactly when rotation is enabled and its width is
\* strictly greater than its height; a square page is never rotated; a rotated
\* page has the effective sizes (height, width), another page (width, height).
C11_RotateIffLandscape ==
    \A pg \in Shown :
        /\ pg.rotate90 <=> (RotationEnabled /\ pg.w > pg.h)
        /\ pg.w = pg.h => ~pg.rotate90
        /\ pg.rotate90 => pg.target_w = pg.h /\ pg.target_h = pg.w
        /\ ~pg.rotate90 => pg.target_w = pg.w /\ pg.target_h = pg.h

\* C11 witness: a square page was shown unrotated with rotation enabled by the
\* legacy flag against rotate_landscape_to_portrait, and a landscape page was
\* shown rotated.
C11_Witness ==
    /\ r_legacy = "True" /\ ~r_rotate
    /\ \E pg \in Shown : pg.w = pg.h /\ ~pg.rotate90
    /\ \E pg \in Shown : pg.w > pg.h /\ pg.rotate90

\* C12: with shrink_only the scale never exceeds 1 and is 1 for every page
\* that is smaller than the usable area; without it the scale is
\* min(usableW / effectiveW, usableH / effectiveH): the largest scale at which
\* the page fits the usable area.
C12_ShrinkOnlyScale ==
    \A pg \in Shown :
        /\ r_shrink => pg.scale.n <= pg.scale.d
        /\ r_shrink /\ 0 < pg.w /\ pg.w <= UsableW /\ 0 < pg.h /\ pg.h <= UsableH
              => pg.scale.n = pg.scale.d
        /\ ~r_shrink /\ pg.w > 0 /\ pg.h > 0 =>
              /\ pg.scale.n * pg.target_w <= UsableW * pg.scale.d
              /\ pg.scale.n * pg.target_h <= UsableH * pg.scale.d
              /\ \/ pg.scale.n * pg.target_w = UsableW * pg.scale.d
                 \/ pg.scale.n * pg.target_h = UsableH * pg.scale.d

\* C12 witness: without shrink_only a small page was enlarged (scale > 1), and
\* the output was written.
C12_Witness ==
    /\ ~r_shrink
    /\ r_pc = "done"
    /\ \E pg \in Shown : pg.scale.n > pg.scale.d

\* The placement box of pg lies in the usable area and is centred in it.
InUsableArea(pg) ==
    /\ pg.pw2 <= 2 * pg.scale.d * UsableW
    /\ pg.ph2 <= 2 * pg.scale.d * UsableH
    /\ pg.ox2 - 2 * pg.scale.d * MarginPt
          = 2 * pg.scale.d * (MarginPt + UsableW) - pg.ox2 - pg.pw2
    /\ pg.oy2 - 2 * pg.scale.d * MarginPt
          = 2 * pg.scale.d * (MarginPt + UsableH) - pg.oy2 - pg.ph2

\* The gaps between the placement box of pg and the edges of the page are
\* equal left and right, equal bottom and top, and at least the margin.
CentredOnPage(pg) ==
    /\ pg.ox2 = 2 * pg.scale.d * A4W - pg.ox2 - pg.pw2
    /\ pg.oy2 = 2 * pg.scale.d * A4H - pg.oy2 - pg.ph2
    /\ pg.ox2 >= 2 * pg.scale.d * MarginPt
    /\ pg.oy2 >= 2 * pg.scale.d * MarginPt

NotFloored == A4W - 2 * MarginPt >= MinContent /\ A4H - 2 * MarginPt >= MinContent

C14_RotatedInsidePlacementBox ==
    \A pg \in Shown :
        pg.rotate90 /\ pg.w > 0 /\ pg.h > 0 =>
            /\ pg.origin = <<pg.ox2, pg.oy2 + pg.ph2>>
            /\ \A pt \in pg.drawn :
                /\ pg.ox2 <= pt[1] /\ pt[1] <= pg.ox2 + pg.pw2
                /\ pg.oy2 <= pt[2] /\ pt[2] <= pg.oy2 + pg.ph2

\* The pages of the input with a width or a height of zero or less.
Degenerate == {i \in DOMAIN r_pages : r_pages[i][1] <= 0 \/ r_pages[i][2] <= 0}

\* C15 (as stated): a page whose width or height is zero or negative is never
\* rendered, and the call fails on it with an error that names its index.
C15_DegeneratePageFails ==
    /\ \A pg \in Shown : pg.src \notin Degenerate
    /\ r_pc = "failed" /\ r_input = "valid" => r_error.page \in Degenerate
    /\ r_pc = "done" => Degenerate = {}

\* C16: the finished output holds one page per source page, in the order of
\* the source: page i of the output is the rendering of page i of the input;
\* and so does the canvas after each pass of the loop.
C16_OnePagePerSourcePage ==
    /\ \A i \in DOMAIN r_canvas :
          r_canvas[i].src = i /\ <<r_canvas[i].w, r_canvas[i].h>> = r_pages[i]
    /\ r_pc = "done" =>
          /\ Len(r_out.pages) = Len(r_pages)
          /\ \A i \in DOMAIN r_pages :
                /\ r_out.pages[i].src = i
                /\ <<r_out.pages[i].w, r_out.pages[i].h>> = r_pages[i]

\* C16 witness: an input of two different pages was written.
C16_Witness ==
    /\ r_pc = "done"
    /\ Len(r_pages) >= 2
    /\ r_pages[1] # r_pages[2]

\* C17: the call fails when the input is missing, empty or no valid document,
\* and as long as the call has not processed every page, and when it failed,
\* the file at the output path is as it was before the call.
C17_NoPartialOutput ==
    /\ r_input # "valid" /\ r_pc \notin {"idle", "call"} =>
          r_pc = "failed" /\ r_error.exc # "none"
    /\ r_pc \in {"call", "pages", "failed"} =>
          r_out.state \in {"absent", "stale"} /\ r_out.pages = <<>>
    /\ r_out.state = "written" =>
          r_pc = "done" /\ Len(r_out.pages) = Len(r_pages)

\* C17 witness: the call failed on the second page of a document, after the
\* first page was drawn, with an older file at the output path.
C17_Witness ==
    /\ r_pc = "failed"
    /\ r_input = "valid"
    /\ Len(r_canvas) = 1
    /\ r_out.state = "stale"

(***************************************************************************)
(* find_matching_directories (copy_zip_desktop.py) and find_and_copy_docx  *)
(* (copy_docx.py).  A name is a sequence of characters; a path is the      *)
(* sequence of the names from the root of the file system; str(path) is    *)
(* the sequence of characters with "/" before each name.                   *)
(***************************************************************************)
MaxDirs == 3
MaxKeywords == 2
MaxDocx == 2

DirNames == {<<"a">>, <<"a", "b">>}
Keywords == {<<"a">>, <<"a", "b">>, <<"b">>}
MatchModes == {"startswith", "contains"}

\* s.startswith(t)
StartsWith(s, t) == Len(t) <= Len(s) /\ SubSeq(s, 1, Len(t)) = t

\* t in s
Contains(s, t) ==
    \E i \in 0..(Len(s) - Len(t)) : SubSeq(s, i + 1, i + Len(t)) = t

\* is_match, as both functions compute it.
IsMatch(match_mode, keyword, name) ==
    IF match_mode = "contains" THEN Contains(name, keyword)
    ELSE IF match_mode = "startswith" THEN StartsWith(name, keyword)
    ELSE FALSE

\* str(path.resolve())
RECURSIVE PathStr(_)
PathStr(path) ==
    IF path = <<>> THEN <<>> ELSE <<"/">> \o Head(path) \o PathStr(Tail(path))

\* The file systems of at most n directories.
RECURSIVE Trees(_)
Trees(n) ==
    IF n = 0 THEN {{}}
    ELSE LET T == Trees(n - 1)
         IN  T \cup {t \cup {Append(p, nm)} :
                        t \in T, p \in UNION T \cup {<<>>}, nm \in DirNames}

\* A file system: every directory but the root has its parent in it.
ParentClosed(t) == \A d \in t : Len(d) > 1 => SubSeq(d, 1, Len(d) - 1) \in t

ListingOrders(S) ==
    {q \in [1..Cardinality(S) -> S] : \A i, j \in DOMAIN q : q[i] = q[j] => i = j}

\* The entries of directory p, in the order in which it lists them.
Entries(t, p, order) ==
    SelectSeq([i \in DOMAIN order |-> Append(p, order[i])], LAMBDA q : q \in t)

\* The directories from p downwards, each before its subdirectories.
RECURSIVE Preorder(_, _, _)
Preorder(t, p, order) ==
    LET es == Entries(t, p, order)
    IN  <<p>> \o Concat([i \in DOMAIN es |-> Preorder(t, es[i], order)])

\* Path(root_path).rglob("*"): the entries of every directory from root_path
\* downwards.
PathRglob(t, root_path, order) ==
    LET ds == Preorder(t, root_path, order)
    IN  Concat([i \in DOMAIN ds |-> Entries(t, ds[i], order)])

\* any(matching_dir.startswith(str(existing)) for existing in matching_dirs)
Covered(matching_dir, matching_dirs) ==
    \E existing \in matching_dirs : StartsWith(matching_dir, existing)

\* The body of the loop over rglob for one path.
FindVisit(matching_dirs, match_mode, keyword, path) ==
    IF ~IsMatch(match_mode, keyword, path[Len(path)]) THEN matching_dirs
    ELSE LET matching_dir == PathStr(path)
         IN  IF Covered(matching_dir, matching_dirs) THEN matching_dirs
             ELSE {existing \in matching_dirs : ~StartsWith(existing, matching_dir)}
                      \cup {matching_dir}

RECURSIVE FindWalk(_, _, _, _)
FindWalk(matching_dirs, match_mode, keyword, paths) ==
    IF paths = <<>> THEN matching_dirs
    ELSE FindWalk(FindVisit(matching_dirs, match_mode, keyword, Head(paths)),
                  match_mode, keyword, Tail(paths))

RECURSIVE FindKeywords(_, _, _, _)
FindKeywords(matching_dirs, match_mode, keywords, paths) ==
    IF keywords = <<>> THEN matching_dirs
    ELSE FindKeywords(FindWalk(matching_dirs, match_mode, Head(keywords), paths),
                      match_mode, Tail(keywords), paths)

RECURSIVE FindRoots(_, _, _, _, _, _)
FindRoots(matching_dirs, t, order, root_paths, keywords, match_mode) ==
    IF root_paths = <<>> THEN matching_dirs
    ELSE FindRoots(FindKeywords(matching_dirs, match_mode, keywords,
                                PathRglob(t, Head(root_paths), order)),
                   t, order, Tail(root_paths), keywords, match_mode)

find_matching_directories(t, order, root_paths, keywords, match_mode) ==
    FindRoots({}, t, order, root_paths, keywords, match_mode)

FInit ==
    /\ XIdle /\ MIdle /\ RIdle /\ CIdle
    /\ f_dirs \in {t \in Trees(MaxDirs) : ParentClosed(t)}
    /\ f_order \in ListingOrders(DirNames)
    /\ f_roots \in {q \in SeqsUpTo(f_dirs \cup {<<>>}, 2) : q # <<>>}
    /\ f_keywords \in {q \in SeqsUpTo(Keywords, MaxKeywords) : q # <<>>}
    /\ f_mode \in MatchModes
    /\ f_result = {}
    /\ f_called = FALSE

CallFind ==
    /\ ~f_called
    /\ f_result' = find_matching_directories(f_dirs, f_order, f_roots, f_keywords, f_mode)
    /\ f_called' = TRUE
    /\ UNCHANGED <<xvars, mvars, rvars, cvars, f_dirs, f_order, f_roots, f_keywords, f_mode>>

SpecFind == FInit /\ [][CallFind]_vars

\* d is a proper ancestor of e.
IsAncestor(d, e) == Len(d) < Len(e) /\ SubSeq(e, 1, Len(d)) = d

\* The directories that the walks visit, and those whose name matches a keyword.
Scanned == {d \in f_dirs : \E i \in DOMAIN f_roots : IsAncestor(f_roots[i], d)}
Matching ==
    {d \in Scanned : \E i \in DOMAIN f_keywords : IsMatch(f_mode, f_keywords[i], d[Len(d)])}

\* C18 (as stated): the result holds only matching directories; every matching
\* directory is in the result or has a proper ancestor in it; no directory of
\* the result is a descendant of another one.
C18_TopMostMatchingDirectories ==
    f_called /\ f_roots # <<>> =>
        /\ f_result \subseteq {PathStr(d) : d \in Matching}
        /\ \A d \in Matching :
              \/ PathStr(d) \in f_result
              \/ \E e \in Matching : IsAncestor(e, d) /\ PathStr(e) \in f_result
        /\ \A d, e \in Matching :
              PathStr(d) \in f_result /\ PathStr(e) \in f_result => ~IsAncestor(d, e)

(***************************************************************************)
(* find_and_copy_docx                                                      *)
(***************************************************************************)
\* A file name is its stem followed by its extension, one element.
Stems == {<<"a">>, <<"a", "b">>, <<"b">>}
FileNames == {Append(stem, ".docx") : stem \in Stems} \cup {<<"a", ".pdf">>}

\* file.endswith(".docx")
IsDocx(file) == file[Len(file)] = ".docx"

\* for keyword in keywords: the first keyword that matches has the file copied
\* and leaves unmatched_keywords; break.
RECURSIVE KeywordLoop(_, _, _, _)
KeywordLoop(file, keywords, match_mode, acc) ==
    IF keywords = <<>> THEN acc
    ELSE IF IsMatch(match_mode, Head(keywords), file)
    THEN [unmatched |-> acc.unmatched \ {Head(keywords)},
          copied |-> Append(acc.copied, file)]
    ELSE KeywordLoop(file, Tail(keywords), match_mode, acc)

\* for file in files, over the whole walk of one directory.
RECURSIVE FileLoop(_, _, _, _)
FileLoop(fs, keywords, match_mode, acc) ==
    IF fs = <<>> THEN acc
    ELSE FileLoop(Tail(fs), keywords, match_mode,
                  IF IsDocx(Head(fs))
                  THEN KeywordLoop(Head(fs), keywords, match_mode, acc)
                  ELSE acc)

\* for directory in docx_dirs: a directory that does not exist is skipped.
RECURSIVE DirLoop(_, _, _, _)
DirLoop(docx_dirs, keywords, match_mode, acc) ==
    IF docx_dirs = <<>> THEN acc
    ELSE DirLoop(Tail(docx_dirs), keywords, match_mode,
                 IF Head(docx_dirs).exists
                 THEN FileLoop(Head(docx_dirs).files, keywords, match_mode, acc)
                 ELSE acc)

find_and_copy_docx(keywords, docx_dirs, match_mode) ==
    DirLoop(docx_dirs, keywords, match_mode,
            [unmatched |-> Range(keywords), copied |-> <<>>])

DocxDirs ==
    {[exists |-> FALSE, files |-> <<>>]}
        \cup {[exists |-> TRUE, files |-> fs] : fs \in SeqsUpTo(FileNames, MaxDocx)}

CInit ==
    /\ XIdle /\ MIdle /\ RIdle /\ FIdle
    /\ c_files \in {q \in SeqsUpTo(DocxDirs, 2) : q # <<>>}
    /\ c_keywords \in SeqsUpTo(Keywords, MaxKeywords)
    /\ c_mode \in MatchModes
    /\ c_unmatched = {}
    /\ c_copied = <<>>
    /\ c_called = FALSE

CallCopy ==
    /\ ~c_called
    /\ LET r == find_and_copy_docx(c_keywords, c_files, c_mode)
       IN  /\ c_unmatched' = r.unmatched
           /\ c_copied' = r.copied
    /\ c_called' = TRUE
    /\ UNCHANGED <<xvars, mvars, rvars, fvars, c_files, c_keywords, c_mode>>

SpecCopy == CInit /\ [][CallCopy]_vars

\* The .docx files that the walks visit.
ScannedDocx ==
    {f \in UNION {Range(c_files[i].files) : i \in {j \in DOMAIN c_files : c_files[j].exists}} :
        IsDocx(f)}

\* C19 (as stated): the keywords reported as unmatched are exactly the keywords
\* that match no scanned .docx file under the match mode.
C19_UnmatchedMatchNoFile ==
    c_called /\ c_keywords # <<>> =>
        c_unmatched =
            {k \in Range(c_keywords) : \A f \in ScannedDocx : ~IsMatch(c_mode, k, f)}

====
